---- MODULE Spec2Model ----
(***************************************************************************)
(* Risk-analytics dashboard: the client-side cache, topic bus, source      *)
(* gateway and the useDashboardData session, as state machines.            *)
(*                                                                         *)
(*   RiskAnalyticsAPI      src/README.md, lines 657-962                    *)
(*                         (the text of src/services/riskAnalyticsAPI.ts)  *)
(*   useDashboardData      src/src/hooks/useDashboardData.ts               *)
(*   RiskAnalyticsService  src/unnamed/part_000, the dashboard component's *)
(*                         built-in service and hook                       *)
(*                                                                         *)
(* JavaScript runs one callback at a time: every action below is one       *)
(* callback (a call, a timer firing, a promise continuation) run to        *)
(* completion.  `last` records the operation just run and what it          *)
(* returned, so that results can be stated as state predicates.            *)
(***************************************************************************)
EXTENDS Integers, Sequences, FiniteSets, TLC

----------------------------------------------------------------------------
(* Bounds of the model *)

\* the clock advances MaxTicks times, half a second at a time
MaxTicks == 3
\* setCache is called with ttlSeconds in 0..MaxTtl or with the default
MaxTtl == 1
\* at most MaxStores setCache calls in one behaviour
MaxStores == 2
\* callers other than the session register at most MaxHandlers callbacks on
\* the bus
MaxHandlers == 3
\* at most MaxPending gateway calls are awaiting their simulated latency
MaxPending == 2
\* at most MaxLoads full loads (the initial one and refreshes) in one behaviour
MaxLoads == 2
\* at most MaxInFlight calls of the refresh loops are awaiting their result
MaxInFlight == 1
\* at most MaxRecoveries reconnection timeouts are pending
MaxRecoveries == 1
\* marketData.riskAlerts holds no entry or MaxMarketAlerts entries
MaxMarketAlerts == 12
\* the real-time effect runs at most MaxEffectRuns times with data present
MaxEffectRuns == 3
\* the metrics clock runs for MaxPeriods TTL periods of the metrics entry
MaxPeriods == 2
\* at most MaxFetching remote metric fetches are awaiting their latency
MaxFetching == 2
\* the dashboard component's session calls its refreshData at most
\* MaxRefreshes times
MaxRefreshes == 3
\* query texts are at most MaxQueryLen symbols long
MaxQueryLen == 4
\* the session clock runs for MaxFeedTicks periods of the market feed
MaxFeedTicks == 3
\* alert events are published while the list holds fewer than MaxEventAlerts
\* alerts built from events
MaxEventAlerts == 2
\* the session's clock stops after MaxClockSeconds seconds
MaxClockSeconds == 12
\* on the clock the real-time effect runs at most MaxClockEffects times with
\* data present
MaxClockEffects == 4

(* Program constants *)
DefaultTtl == 30
MsPerSecond == 1000
MetricsTtl == 5
\* prevData.riskAlerts.slice(0, 9)
AlertsKept == 9
\* setInterval(..., 100) of initializeKafkaStream
FeedPeriod == 100
\* the periods of the three intervals of the real-time effect
HealthPeriod == 30000
MetricsPeriod == 5000
VarPeriod == 15000
\* await this.delay(12) of fetchRealTimeMetrics
FetchLatency == 12
\* the longest await this.delay(Math.random() * 20 + 5) of pingService
PingLatencyMax == 25
\* the period of the connectionCheck interval and the delay of its setTimeout
ConnectionPeriod == 10000
RecoveryDelay == 2000

TickMs == MsPerSecond \div 2
Null == 0
Keys == {"realtime_metrics", "m"}
\* cached values: null and two values that differ
Values == {Null, 1, 2}
TtlChoices == (0..MaxTtl) \cup {DefaultTtl}
Topics == {"market_data", "risk_alerts"}
\* payloads of published events
MsgValues == {1, 2}
\* what a registered callback does when it is invoked
BusKinds == {"plain", "throws", "subscribes"}
\* the two implementations of the gateway in the repository
Impls == {"RiskAnalyticsAPI", "RiskAnalyticsService"}
\* function names passed to invokeLambdaFunction: the three of
\* API_CONFIG.LAMBDA_FUNCTION_URLS and one that is none of them
LambdaNames == {"RISK_CALCULATION", "PORTFOLIO_ANALYSIS", "ALERT_PROCESSOR", "NOT_A_FUNCTION"}
\* the members of the Promise.all of getAllDashboardData, in its order
Members == <<"fetchRealTimeMetrics", "GetVarHistory", "GetSectorExposure",
             "ALERT_PROCESSOR", "PORTFOLIO_ANALYSIS", "healthCheck">>
\* the three refresh loops of the real-time effect
Loops == {"health", "metrics", "var"}
\* what a rejected call rejects with: an Error, or a value that is no Error
ErrKinds == {"Error", "other"}
\* the payload of the events the session reacts to
SessionPayload == 1
\* the intervals the session sets: its three loops and the connection check
SessionTimers == Loops \cup {"connection"}

VARIABLES
    now,        \* Date.now(), in milliseconds
    cache,      \* RiskAnalyticsAPI.cache : Map key -> {data, timestamp, ttl}
    timers,     \* pending setTimeout cleanups of setCache: {id, key, due}
    stores,     \* number of setCache calls so far (names the timers)
    stored,     \* history: the latest setCache per key {value, at, ttlSeconds, id}
                \* and the entry it replaced (over; live: that entry was live)
    eventListeners, \* RiskAnalyticsAPI.eventListeners : Map topic -> Function[]
    nextId,     \* names the callbacks: the next callback registered gets this id
    handles,    \* what subscribeToKafkaTopic returned, per callback id
    pending,    \* gateway calls awaiting their delay(ms): call -> how many
    fetching,   \* fetchRealTimeMetrics calls awaiting delay(12): {id, due}
    fetched,    \* number of remote metric fetches completed
    mounted,    \* the component using useDashboardData is mounted
    data, loading, error, lastUpdated, isRealTimeConnected,  \* the hook's useState
    loads,      \* loadData calls awaiting getAllDashboardData: id -> whether
                \* several members are pending ("some") or just one ("one")
    loadSeq,    \* number of loadData calls so far
    retries,    \* history: the loads started by a refreshData called with an
                \* error shown and no load in flight
    rtActive,   \* the real-time effect holds its three intervals
    effectStale,\* data has changed since the real-time effect last ran
    intervalsAt,\* when the real-time effect last set its three intervals
    readyAt,    \* history: when the real-time effect first ran with data present
    feedDue,    \* when the interval of initializeKafkaStream fires next
    firedAt,    \* when each interval of the session fired last, on the clock
    connActive, \* the connectionCheck interval is set
    recoveries, \* pending setTimeout(..., 2000) reconnections
    calls,      \* calls of the refresh loops awaiting their result: loop -> how many
    dashData, dashLoading, dashError, dashLastUpdated,  \* the useState of the
                \* dashboard component's built-in useDashboardData
    dashRefreshes,  \* its refreshData calls awaiting Promise.all: {id, by, pending}
    dashSeq,    \* number of its refreshData calls so far
    last        \* the operation just run and its result

cacheVars == <<now, cache, timers, stores, stored>>
busVars == <<eventListeners, nextId, handles>>
metricsVars == <<fetching, fetched>>
gatewayVars == <<pending, fetching, fetched>>
hookVars == <<data, loading, error, lastUpdated, isRealTimeConnected>>
sessionVars == <<mounted, data, loading, error, lastUpdated, isRealTimeConnected,
                 loads, loadSeq, retries, intervalsAt, readyAt, rtActive, effectStale,
                 connActive, recoveries, calls>>
componentVars == <<dashData, dashLoading, dashError, dashLastUpdated,
                   dashRefreshes, dashSeq>>
componentRest == <<cacheVars, busVars, gatewayVars, sessionVars, feedDue, firedAt>>
vars == <<now, cache, timers, stores, stored, eventListeners, nextId, handles,
          pending, fetching, fetched, mounted, data, loading, error, lastUpdated, isRealTimeConnected,
          loads, loadSeq, retries, intervalsAt, readyAt, rtActive, effectStale, connActive, recoveries, calls,
          dashData, dashLoading, dashError, dashLastUpdated, dashRefreshes, dashSeq,
          feedDue, firedAt, last>>

----------------------------------------------------------------------------
(* Map<string, ...> helpers *)

MapSet(m, k, e) == [x \in (DOMAIN m) \cup {k} |-> IF x = k THEN e ELSE m[x]]
MapDelete(m, k) == [x \in (DOMAIN m) \ {k} |-> m[x]]
MapHas(m, k) == k \in DOMAIN m

\* setTimeout clamps a negative delay to 0
TimeoutDelay(ms) == IF ms < 0 THEN 0 ELSE ms

----------------------------------------------------------------------------
(* Expiring cache: RiskAnalyticsAPI.setCache / getCache *)

\* the entry setCache builds: ttl is the absolute expiry instant
CacheEntry(value, ttlSeconds) ==
    [data |-> value, timestamp |-> now, ttl |-> now + ttlSeconds * MsPerSecond]

NoEntry == [data |-> Null, timestamp |-> -1, ttl |-> -1]

\* getCache's liveness test
EntryLiveInclusive(e) == now <= e.ttl
EntryLive(e) == now < e.ttl

\* getCache's return value
getCacheResult(key) ==
    IF MapHas(cache, key) /\ EntryLive(cache[key]) THEN cache[key].data ELSE Null

\* getCache's effect on the map: an expired entry is deleted on read
getCacheMapKeeps(key) == cache
getCacheMap(key) ==
    IF MapHas(cache, key) /\ ~EntryLive(cache[key]) THEN MapDelete(cache, key) ELSE cache

\* the deferred cleanup's test: delete only an entry that has expired
CleanupDeletesByKey(key) == MapHas(cache, key)
CleanupDeletes(key) == MapHas(cache, key) /\ now > cache[key].ttl

\* the body of setCache
setCacheStore(key, value, ttlSeconds) ==
    /\ stores' = stores + 1
    /\ cache' = MapSet(cache, key, CacheEntry(value, ttlSeconds))
    /\ timers' = timers \cup
         {[id |-> stores + 1, key |-> key,
           due |-> now + TimeoutDelay(ttlSeconds * MsPerSecond)]}
    /\ stored' = MapSet(stored, key,
         [value |-> value, at |-> now, ttlSeconds |-> ttlSeconds, id |-> stores + 1,
          live |-> MapHas(cache, key) /\ EntryLive(cache[key]),
          over |-> IF MapHas(cache, key) THEN cache[key] ELSE NoEntry])

setCache(key, value, ttlSeconds) ==
    /\ stores < MaxStores
    /\ setCacheStore(key, value, ttlSeconds)
    /\ last' = [op |-> "setCache", key |-> key]
    /\ UNCHANGED now

getCache(key) ==
    /\ last' = [op |-> "getCache", key |-> key, at |-> now,
                result |-> getCacheResult(key),
                purged |-> (MapHas(cache, key) /\ ~MapHas(getCacheMap(key), key))]
    /\ cache' = getCacheMap(key)
    /\ UNCHANGED <<now, timers, stores, stored>>

\* the setTimeout callback of setCache, run at or after its due time
CacheCleanup(t) ==
    /\ t \in timers
    /\ now >= t.due
    /\ timers' = timers \ {t}
    /\ cache' = IF CleanupDeletes(t.key) THEN MapDelete(cache, t.key) ELSE cache
    /\ last' = [op |-> "cleanup", key |-> t.key, id |-> t.id]
    /\ UNCHANGED <<now, stores, stored>>

\* time passes
Advance ==
    /\ now + TickMs <= MaxTicks * TickMs
    /\ now' = now + TickMs
    /\ last' = [op |-> "advance"]
    /\ UNCHANGED <<cache, timers, stores, stored>>

----------------------------------------------------------------------------
(* useDashboardData: the state of the hook and its updaters *)

\* no interval set yet
NoTime == -1
NoData == [none |-> TRUE]
NoDate == [none |-> TRUE]
NoError == "<null>"

\* a fetched or derived value is named by what produced it: a full load (and
\* which), a tick of a refresh loop, or a live event
Val(by, id) == [by |-> by, id |-> id]
\* new Date()
Date(by, id) == [at |-> now, by |-> by, id |-> id]

\* the hook's state as one value; fresh: setData has stored a new object
Hook == [data |-> data, loading |-> loading, error |-> error,
         lastUpdated |-> lastUpdated, isRealTimeConnected |-> isRealTimeConnected,
         fresh |-> FALSE]

\* React applies the state updates of a mounted component only, and flushes
\* the effects of the previous render before it processes an update; a new
\* data object makes the real-time effect (dependency [data]) due to run again
SetHook(h) ==
    /\ mounted => ~effectStale
    /\ data' = IF mounted THEN h.data ELSE data
    /\ loading' = IF mounted THEN h.loading ELSE loading
    /\ error' = IF mounted THEN h.error ELSE error
    /\ lastUpdated' = IF mounted THEN h.lastUpdated ELSE lastUpdated
    /\ isRealTimeConnected' = IF mounted THEN h.isRealTimeConnected ELSE isRealTimeConnected
    /\ effectStale' = (effectStale \/ (mounted /\ h.fresh))

\* Array.prototype.slice(0, end)
Slice(seq, end) == SubSeq(seq, 1, IF Len(seq) < end THEN Len(seq) ELSE end)

\* the market_data callback: setData(prevData => ...) and setLastUpdated
marketHandlerWide(h) ==
    IF h.data = NoData
    THEN [h EXCEPT !.lastUpdated = Date("live", 0)]
    ELSE [h EXCEPT !.data.metrics = Val("market", 0),
                   !.data.varHistory = Val("market", 0),
                   !.lastUpdated = Date("live", 0),
                   !.fresh = TRUE]
marketHandlerDropsSnapshot(h) ==
    IF h.data = NoData
    THEN [h EXCEPT !.lastUpdated = Date("live", 0)]
    ELSE [h EXCEPT !.data = NoData,
                   !.lastUpdated = Date("live", 0),
                   !.fresh = TRUE]
marketHandler(h) ==
    IF h.data = NoData
    THEN [h EXCEPT !.lastUpdated = Date("live", 0)]
    ELSE [h EXCEPT !.data.metrics = Val("market", 0),
                   !.lastUpdated = Date("live", 0),
                   !.fresh = TRUE]

\* the alert the risk_alerts callback builds from message.value
NewAlert(message) == [id |-> 0, status |-> "ACTIVE", symbol |-> message.value]

\* [newAlert, ...prevData.riskAlerts.slice(0, 9)]
PrependAlertUncapped(alerts, message) == <<NewAlert(message)>> \o alerts
PrependAlert(alerts, message) == <<NewAlert(message)>> \o Slice(alerts, AlertsKept)

\* the risk_alerts callback: setData(prevData => ...)
alertsHandler(h, message) ==
    IF h.data = NoData THEN h
    ELSE [h EXCEPT !.data.riskAlerts = PrependAlert(@, message), !.fresh = TRUE]

----------------------------------------------------------------------------
(* Topic bus: RiskAnalyticsAPI.subscribeToKafkaTopic / emitKafkaEvent *)

\* this.eventListeners.get(topic) || []
Listeners(el, topic) == IF MapHas(el, topic) THEN el[topic] ELSE <<>>

\* subscribeToKafkaTopic's effect on the map: create the list if absent, push
ListenersPush(el, topic, h) == MapSet(el, topic, Append(Listeners(el, topic), h))

\* subscribeToKafkaTopic is declared void: the caller gets undefined
SubscribeReturn == "undefined"

KafkaMessage(topic, payload) == [topic |-> topic, value |-> payload]

\* one listener(message) call of the forEach.  st is the state the callbacks
\* act on: the listener map, the id counter, the calls made so far, whether
\* a callback has thrown, and the state of the hook whose callbacks are called.
InvokeListener(st, topic, message, h) ==
    LET called == [st EXCEPT !.delivered = Append(@, [id |-> h.id, message |-> message])]
    IN  CASE h.kind = "plain" -> called
          [] h.kind = "throws" -> [called EXCEPT !.threw = TRUE]
          [] h.kind = "market" -> [called EXCEPT !.hook = marketHandler(@)]
          [] h.kind = "alerts" -> [called EXCEPT !.hook = alertsHandler(@, message)]
          [] h.kind = "subscribes" ->
                [called EXCEPT
                    !.listeners = ListenersPush(@, topic, [id |-> st.nextId, kind |-> "plain"]),
                    !.nextId = @ + 1]

\* Array.prototype.forEach visits the indices below the length the array had
\* when forEach was called; elements pushed meanwhile are not visited
ForEachRangeLive(st, topic, len0) == Len(Listeners(st.listeners, topic))
ForEachRange(st, topic, len0) == len0

\* listeners.forEach(listener => listener(message)); an exception thrown by a
\* callback ends the loop and leaves emitKafkaEvent
RECURSIVE forEachListener(_, _, _, _, _)
forEachListener(st, topic, message, i, len0) ==
    IF st.threw \/ i > ForEachRange(st, topic, len0) THEN st
    ELSE forEachListener(
            InvokeListener(st, topic, message, Listeners(st.listeners, topic)[i]),
            topic, message, i + 1, len0)

Subscribers(el, topic) ==
    {i \in 1..Len(Listeners(el, topic)) : Listeners(el, topic)[i].kind = "subscribes"}

emitResult(topic, payload) ==
    forEachListener(
        [listeners |-> eventListeners, nextId |-> nextId, delivered |-> <<>>,
         threw |-> FALSE, hook |-> Hook],
        topic, KafkaMessage(topic, payload), 1, Len(Listeners(eventListeners, topic)))

\* what a publish leaves alone, besides the cache and the gateway
emitFrame == <<mounted, loads, loadSeq, retries, intervalsAt, readyAt, rtActive, connActive, recoveries, calls>>

\* emitKafkaEvent(topic, data), called by `by`
emitKafkaEvent(by, topic, payload) ==
    /\ \/ Subscribers(eventListeners, topic) = {}
       \/ nextId + Cardinality(Subscribers(eventListeners, topic)) <= MaxHandlers + 1
    /\ LET st == emitResult(topic, payload) IN
        /\ eventListeners' = st.listeners
        /\ handles' = [i \in 1..(st.nextId - 1) |-> SubscribeReturn]
        /\ nextId' = st.nextId
        /\ SetHook(st.hook)
        /\ last' = [op |-> "emit", by |-> by, topic |-> topic, value |-> payload,
                    before |-> Listeners(eventListeners, topic),
                    delivered |-> st.delivered, threw |-> st.threw]

\* subscribeToKafkaTopic(topic, callback), the callback behaving as `kind`
subscribeToKafkaTopic(topic, kind) ==
    /\ nextId <= MaxHandlers
    /\ eventListeners' = ListenersPush(eventListeners, topic, [id |-> nextId, kind |-> kind])
    /\ handles' = [i \in 1..nextId |-> SubscribeReturn]
    /\ nextId' = nextId + 1
    /\ last' = [op |-> "subscribe", topic |-> topic, id |-> nextId,
                returned |-> SubscribeReturn]

\* the setInterval callback of initializeKafkaStream: one market_data event
FeedTickOnAlerts(payload) == emitKafkaEvent("feed", "risk_alerts", payload)
FeedTick(payload) == emitKafkaEvent("feed", "market_data", payload)

\* number of alerts in the hook's list that were built from events
EventAlerts ==
    IF data = NoData THEN 0
    ELSE Cardinality({i \in 1..Len(data.riskAlerts) : data.riskAlerts[i].id = 0})

\* a producer publishes an alert event
ProducerAlert(payload) ==
    /\ EventAlerts < MaxEventAlerts
    /\ emitKafkaEvent("producer", "risk_alerts", payload)

\* a caller unsubscribes by calling what subscribeToKafkaTopic returned to it:
\* calling undefined throws a TypeError and changes nothing
Unsubscribe(id) ==
    /\ id \in DOMAIN handles
    /\ handles[id] = "undefined"
    /\ last' = [op |-> "unsubscribe", id |-> id, threw |-> TRUE]
    /\ UNCHANGED busVars

Registered(el, id) ==
    \E topic \in DOMAIN el : \E i \in 1..Len(el[topic]) : el[topic][i].id = id

----------------------------------------------------------------------------
(* Source gateway: invokeLambdaFunction, in RiskAnalyticsAPI and in the      *)
(* dashboard component's RiskAnalyticsService                               *)

Resolved(statusCode, body) ==
    [settled |-> "resolved", statusCode |-> statusCode, body |-> body]
Rejected(message) == [settled |-> "rejected", message |-> message]

\* RiskAnalyticsAPI.invokeLambdaFunction: the switch on functionName; body is
\* the set of keys of the body returned
ApiInvokeLambda(functionName) ==
    CASE functionName = "RISK_CALCULATION" ->
            Resolved(200, {"calculatedAt", "riskScore", "recommendation"})
      [] functionName = "PORTFOLIO_ANALYSIS" ->
            Resolved(200, {"analysis", "optimizationSuggestions"})
      [] functionName = "ALERT_PROCESSOR" ->
            Resolved(200, {"alerts", "processedAt"})
      [] OTHER -> Rejected("Unknown Lambda function")

\* RiskAnalyticsService.invokeLambdaFunction: no switch, every name resolves
ServiceInvokeLambda(functionName) ==
    Resolved(200, IF functionName = "ALERT_PROCESSOR" THEN {"alerts"} ELSE {"analysis"})

invokeLambdaResult(impl, functionName) ==
    IF impl = "RiskAnalyticsAPI" THEN ApiInvokeLambda(functionName)
    ELSE ServiceInvokeLambda(functionName)

LambdaCalls == [impl : Impls, functionName : LambdaNames]

PendingTotal == LET RECURSIVE Sum(_)
                    Sum(S) == IF S = {} THEN 0
                              ELSE LET c == CHOOSE x \in S : TRUE
                                   IN pending[c] + Sum(S \ {c})
                IN Sum(DOMAIN pending)

\* invokeLambdaFunction up to its await this.delay(5)
invokeLambdaFunction(c) ==
    /\ PendingTotal < MaxPending
    /\ pending' = [pending EXCEPT ![c] = @ + 1]
    /\ last' = [op |-> "invoke", call |-> c]

\* the rest of invokeLambdaFunction, once the delay has elapsed
invokeLambdaSettle(c) ==
    /\ pending[c] > 0
    /\ pending' = [pending EXCEPT ![c] = @ - 1]
    /\ last' = [op |-> "invokeSettled", call |-> c,
                result |-> invokeLambdaResult(c.impl, c.functionName)]

----------------------------------------------------------------------------
(* Source gateway: RiskAnalyticsAPI.executeGraphQLQuery *)

\* query texts are strings over these symbols; the two words the method
\* looks for are two symbols long
QuerySymbols == {"var", "History", "sector", "Exposure", "query"}
VarHistoryWord == <<"var", "History">>
SectorExposureWord == <<"sector", "Exposure">>

RECURSIVE QueriesOfLen(_)
QueriesOfLen(n) ==
    IF n = 0 THEN {<<>>}
    ELSE {Append(q, c) : q \in QueriesOfLen(n - 1), c \in QuerySymbols}
Queries == UNION {QueriesOfLen(n) : n \in 0..MaxQueryLen}

\* String.prototype.includes: the word occurs at some position of the text
Includes(text, word) ==
    \E i \in 1..(Len(text) - Len(word) + 1) :
        SubSeq(text, i, i + Len(word) - 1) = word

\* what executeGraphQLQuery resolves with; data names the key of the data
\* object returned, Null for {data: null}
executeGraphQLResultSectorFirst(query) ==
    IF Includes(query, SectorExposureWord) THEN [settled |-> "resolved", data |-> "sectorExposure"]
    ELSE IF Includes(query, VarHistoryWord) THEN [settled |-> "resolved", data |-> "varHistory"]
    ELSE [settled |-> "resolved", data |-> "null"]
executeGraphQLResult(query) ==
    IF Includes(query, VarHistoryWord) THEN [settled |-> "resolved", data |-> "varHistory"]
    ELSE IF Includes(query, SectorExposureWord)
         THEN [settled |-> "resolved", data |-> "sectorExposure"]
    ELSE [settled |-> "resolved", data |-> "null"]

\* executeGraphQLQuery(query) and its continuation after delay(8)
executeGraphQLQuery(query) ==
    /\ last' = [op |-> "graphql", query |-> query, result |-> executeGraphQLResult(query)]
    /\ UNCHANGED <<cacheVars, busVars, gatewayVars, sessionVars, componentVars, feedDue, firedAt>>

----------------------------------------------------------------------------
(* Source gateway: fetchRealTimeMetrics, read-through on the cache *)

MetricsKey == "realtime_metrics"

\* if (cached): the truthiness of what getCache returned
CachedNever(cached) == FALSE
CachedTruthy(cached) == cached # Null

\* the metrics object a remote fetch builds: the n-th fetch yields value n
RemoteMetrics(n) == n

\* what fetchRealTimeMetrics finds in the cache when it is called
fetchRealTimeMetricsHit == CachedTruthy(getCacheResult(MetricsKey))

\* fetchRealTimeMetrics up to its return (hit) or its await (miss): its effect
\* on the cache and on the fetches in flight
fetchRealTimeMetricsCall ==
    /\ Cardinality(fetching) < MaxFetching
    /\ cache' = getCacheMap(MetricsKey)
    /\ fetching' = IF fetchRealTimeMetricsHit THEN fetching
                   ELSE fetching \cup
                     {[id |-> fetched + Cardinality(fetching) + 1, due |-> now + FetchLatency]}
    /\ UNCHANGED <<now, timers, stores, stored, fetched, pending>>

fetchRealTimeMetrics ==
    /\ fetchRealTimeMetricsCall
    /\ last' = [op |-> "fetchMetrics", hit |-> fetchRealTimeMetricsHit, at |-> now,
                result |-> IF fetchRealTimeMetricsHit THEN getCacheResult(MetricsKey)
                           ELSE Null]

\* fetchRealTimeMetrics after delay(12): build the metrics, setCache, return
fetchRealTimeMetricsStore(f) ==
    /\ f \in fetching
    /\ now >= f.due
    /\ fetching' = fetching \ {f}
    /\ fetched' = fetched + 1
    /\ setCacheStore(MetricsKey, RemoteMetrics(fetched + 1), MetricsTtl)
    /\ UNCHANGED <<now, pending>>

fetchRealTimeMetricsSettle(f) ==
    /\ stores < MaxStores
    /\ fetchRealTimeMetricsStore(f)
    /\ last' = [op |-> "fetchDone", id |-> f.id, at |-> now,
                result |-> RemoteMetrics(fetched + 1)]

\* time passes, half a metrics TTL at a time
MetricsStep == (MetricsTtl * MsPerSecond) \div 2
Elapse ==
    /\ now + MetricsStep <= MaxPeriods * MetricsTtl * MsPerSecond
    /\ now' = now + MetricsStep
    /\ last' = [op |-> "elapse"]
    /\ UNCHANGED <<cache, timers, stores, stored, fetching, fetched, pending>>

----------------------------------------------------------------------------
(* useDashboardData: full loads (loadData, refreshData, getAllDashboardData) *)

\* marketData.riskAlerts, a data file of the repository: n entries, the first
\* of them not ACTIVE
MarketRiskAlerts(n) ==
    [i \in 1..n |-> [id |-> i, status |-> IF i = 1 THEN "RESOLVED" ELSE "ACTIVE"]]
MarketFeeds == {MarketRiskAlerts(n) : n \in {0, MaxMarketAlerts}}

\* ALERT_PROCESSOR: marketData.riskAlerts.filter(alert => alert.status === 'ACTIVE')
IsActive(a) == a.status = "ACTIVE"
AlertProcessorAlerts(feed) == SelectSeq(feed, IsActive)

\* the object getAllDashboardData returns for load l
Dashboard(l, feed) ==
    [metrics |-> Val("load", l),
     varHistory |-> Val("load", l),
     sectorExposure |-> Val("load", l),
     riskAlerts |-> AlertProcessorAlerts(feed),
     portfolioBreakdown |-> Val("load", l),
     systemHealth |-> Val("load", l)]

\* loadData after the await, getAllDashboardData having resolved
loadDataThenMerges(h, dashboardData, l) ==
    [h EXCEPT !.data = IF h.data = NoData THEN dashboardData
                       ELSE [dashboardData EXCEPT !.riskAlerts = h.data.riskAlerts],
              !.lastUpdated = Date("load", l),
              !.isRealTimeConnected = TRUE,
              !.loading = FALSE,
              !.fresh = TRUE]
loadDataThen(h, dashboardData, l) ==
    [h EXCEPT !.data = dashboardData,
              !.lastUpdated = Date("load", l),
              !.isRealTimeConnected = TRUE,
              !.loading = FALSE,
              !.fresh = TRUE]

\* err instanceof Error ? err.message : 'Failed to load data'
ErrorMessageNone(kind) == NoError
ErrorMessage(kind) == IF kind = "Error" THEN "err.message" ELSE "Failed to load data"

\* loadData's catch and finally, getAllDashboardData having rejected
loadDataCatchPartial(h, message) ==
    [h EXCEPT !.data = Dashboard(0, <<>>), !.error = message,
              !.isRealTimeConnected = FALSE, !.loading = FALSE, !.fresh = TRUE]
loadDataCatchKeepsLoading(h, message) ==
    [h EXCEPT !.error = message, !.isRealTimeConnected = FALSE]
loadDataCatch(h, message) ==
    [h EXCEPT !.error = message, !.isRealTimeConnected = FALSE, !.loading = FALSE]

\* loadData up to its await: setError(null)
loadDataStartKeeps(h) == h
loadDataStart(h) == [h EXCEPT !.error = NoError]

\* refreshData: setLoading(true), then loadData up to its await: setError(null)
\* and the six calls of getAllDashboardData started
refreshData ==
    /\ mounted
    /\ loadSeq < MaxLoads
    /\ SetHook(loadDataStart([Hook EXCEPT !.loading = TRUE]))
    /\ loadSeq' = loadSeq + 1
    /\ loads' = MapSet(loads, loadSeq + 1, "some")
    /\ retries' = IF error # NoError /\ DOMAIN loads = {}
                  THEN retries \cup {loadSeq + 1} ELSE retries
    /\ last' = [op |-> "refreshData", id |-> loadSeq + 1]
    /\ UNCHANGED <<mounted, rtActive, intervalsAt, readyAt, connActive, recoveries,
                   calls, busVars>>

\* members of load l's Promise.all fulfil until a single one is pending (the
\* six members are told apart only when one rejects)
LoadMemberFulfil(l) ==
    /\ l \in DOMAIN loads
    /\ loads[l] = "some"
    /\ loads' = [loads EXCEPT ![l] = "one"]
    /\ last' = [op |-> "memberFulfilled", id |-> l]
    /\ UNCHANGED <<mounted, hookVars, effectStale, loadSeq, retries, intervalsAt, readyAt, rtActive, connActive,
                   recoveries, calls, busVars>>

\* the last member fulfils: Promise.all resolves, getAllDashboardData returns
\* the assembled object and loadData continues
LoadResolve(l, feed) ==
    /\ l \in DOMAIN loads
    /\ loads[l] = "one"
    /\ SetHook(loadDataThen(Hook, Dashboard(l, feed), l))
    /\ loads' = MapDelete(loads, l)
    /\ last' = [op |-> "loadSucceeded", id |-> l]
    /\ UNCHANGED <<mounted, loadSeq, retries, intervalsAt, readyAt, rtActive, connActive, recoveries, calls, busVars>>

\* member m rejects first: Promise.all rejects at once, getAllDashboardData
\* rethrows and loadData's catch and finally run
LoadReject(l, m, kind) ==
    /\ l \in DOMAIN loads
    /\ SetHook(loadDataCatch(Hook, ErrorMessage(kind)))
    /\ loads' = MapDelete(loads, l)
    /\ last' = [op |-> "loadFailed", id |-> l, member |-> Members[m],
                othersFulfilled |-> (loads[l] = "one")]
    /\ UNCHANGED <<mounted, loadSeq, retries, intervalsAt, readyAt, rtActive, connActive, recoveries, calls, busVars>>

----------------------------------------------------------------------------
(* useDashboardData: the real-time effect and the connection monitor *)

\* a tick's continuation after its await resolved: the setData updater, and
\* setLastUpdated in the metrics loop
tickThenClearsError(h, loop) == [h EXCEPT !.error = NoError]
tickThen(h, loop) ==
    CASE loop = "health" ->
            IF h.data = NoData THEN h
            ELSE [h EXCEPT !.data.systemHealth = Val("tick", 0), !.fresh = TRUE]
      [] loop = "metrics" ->
            IF h.data = NoData THEN [h EXCEPT !.lastUpdated = Date("live", 0)]
            ELSE [h EXCEPT !.data.metrics = Val("tick", 0),
                           !.lastUpdated = Date("live", 0), !.fresh = TRUE]
      [] loop = "var" ->
            IF h.data = NoData THEN h
            ELSE [h EXCEPT !.data.varHistory = Val("tick", 0), !.fresh = TRUE]

\* a tick's catch block
tickCatchClears(h, loop) ==
    IF h.data = NoData THEN h
    ELSE [h EXCEPT !.data.metrics = Val("none", 0), !.fresh = TRUE]
tickCatch(h, loop) ==
    IF loop = "health" THEN [h EXCEPT !.isRealTimeConnected = FALSE] ELSE h

CallsTotal == calls["health"] + calls["metrics"] + calls["var"]

\* a setInterval callback of the real-time effect, up to its await
Tick(loop) ==
    /\ rtActive
    /\ CallsTotal < MaxInFlight
    /\ calls' = [calls EXCEPT ![loop] = @ + 1]
    /\ last' = [op |-> "tick", loop |-> loop]
    /\ UNCHANGED <<mounted, hookVars, effectStale, loads, loadSeq, retries, intervalsAt, readyAt, rtActive,
                   connActive, recoveries, busVars>>

\* up: every service of a healthCheck answered UP (FALSE: one is DOWN)
TickFulfil(loop, up) ==
    /\ calls[loop] > 0
    /\ up \/ loop = "health"
    /\ calls' = [calls EXCEPT ![loop] = @ - 1]
    /\ SetHook(tickThen(Hook, loop))
    /\ last' = [op |-> "tickDone", loop |-> loop, up |-> up]
    /\ UNCHANGED <<mounted, loads, loadSeq, retries, intervalsAt, readyAt, rtActive, connActive, recoveries, busVars>>

TickReject(loop) ==
    /\ calls[loop] > 0
    /\ calls' = [calls EXCEPT ![loop] = @ - 1]
    /\ SetHook(tickCatch(Hook, loop))
    /\ last' = [op |-> "tickFailed", loop |-> loop]
    /\ UNCHANGED <<mounted, loads, loadSeq, retries, intervalsAt, readyAt, rtActive, connActive, recoveries, busVars>>

\* the two subscribeToKafkaTopic calls of the real-time effect
EffectSubscribe(el, n) ==
    ListenersPush(ListenersPush(el, "market_data", [id |-> n, kind |-> "market"]),
                  "risk_alerts", [id |-> n + 1, kind |-> "alerts"])

\* the cleanup function the real-time effect returns: three clearInterval
EffectCleanupKeeps(active) == active
EffectCleanup(active) == FALSE

\* if (!data) return: the effect body does nothing while there is no snapshot
EffectSkipsNever(d) == FALSE
EffectSkips(d) == d = NoData

\* when the intervals the effect body sets start counting
EffectIntervalsKept(prev) == IF prev = NoTime THEN now ELSE prev
EffectIntervalsAt(prev) == now

\* React re-runs the real-time effect after a render with a new data object:
\* the previous run's cleanup, then the effect body
EffectRun ==
    /\ mounted
    /\ effectStale
    /\ effectStale' = FALSE
    /\ IF EffectSkips(data)
       THEN /\ rtActive' = EffectCleanup(rtActive)
            /\ UNCHANGED <<busVars, intervalsAt, readyAt>>
       ELSE /\ intervalsAt' = EffectIntervalsAt(intervalsAt)
            /\ readyAt' = IF readyAt = NoTime THEN now ELSE readyAt
            /\ eventListeners' = EffectSubscribe(eventListeners, nextId)
            /\ nextId' = nextId + 2
            /\ handles' = [i \in 1..(nextId + 1) |-> SubscribeReturn]
            /\ rtActive' = TRUE
    /\ last' = [op |-> "effect"]
    /\ UNCHANGED <<mounted, hookVars, loads, loadSeq, retries, connActive, recoveries, calls>>

RunEffect ==
    /\ (data # NoData) => (nextId < 2 * MaxEffectRuns)
    /\ EffectRun

Period(loop) ==
    CASE loop = "health" -> HealthPeriod
      [] loop = "metrics" -> MetricsPeriod
      [] loop = "var" -> VarPeriod

\* when the interval of a loop, as last set by the effect, fires first
NextTickDue(loop) == intervalsAt + Period(loop)

\* the interval of initializeKafkaStream fires: one market_data event
FeedInterval ==
    /\ now >= feedDue
    /\ feedDue' = feedDue + FeedPeriod
    /\ FeedTick(SessionPayload)

\* one period of the feed passes; no timer that is due is skipped, and React
\* has run the effects of the last render
FeedPeriodPasses ==
    /\ now < feedDue
    /\ ~effectStale
    /\ now + FeedPeriod <= MaxFeedTicks * FeedPeriod
    /\ now' = now + FeedPeriod
    /\ last' = [op |-> "wait"]
    /\ UNCHANGED <<cache, timers, stores, stored, feedDue>>

\* the connectionCheck interval callback; isConnected = Math.random() > 0.02
ConnectionCheck(isConnected) ==
    /\ connActive
    /\ isConnected \/ recoveries < MaxRecoveries
    /\ SetHook([Hook EXCEPT !.isRealTimeConnected = isConnected])
    /\ recoveries' = IF isConnected THEN recoveries ELSE recoveries + 1
    /\ last' = [op |-> "connectionCheck", isConnected |-> isConnected]
    /\ UNCHANGED <<mounted, loads, loadSeq, retries, intervalsAt, readyAt, rtActive, connActive, calls, busVars>>

\* the setTimeout(..., 2000) callback of connectionCheck
recoveryKeeps(h) == h
recoveryThen(h) == [h EXCEPT !.isRealTimeConnected = TRUE]

Recovery ==
    /\ recoveries > 0
    /\ recoveries' = recoveries - 1
    /\ SetHook(recoveryThen(Hook))
    /\ last' = [op |-> "recovery"]
    /\ UNCHANGED <<mounted, loads, loadSeq, retries, intervalsAt, readyAt, rtActive, connActive, calls, busVars>>

\* the component unmounts: React runs the cleanup functions of the effects
Unmount ==
    /\ mounted
    /\ mounted' = FALSE
    /\ rtActive' = EffectCleanup(rtActive)
    /\ connActive' = FALSE
    /\ last' = [op |-> "unmount"]
    /\ UNCHANGED <<hookVars, effectStale, loads, loadSeq, retries, intervalsAt, readyAt, recoveries, calls, busVars>>

----------------------------------------------------------------------------
(* The dashboard component's built-in useDashboardData, on RiskAnalyticsService *)

\* useState(mockData)
MockData ==
    [metrics |-> Val("mock", 0), varHistory |-> Val("mock", 0),
     sectorExposure |-> Val("mock", 0), riskAlerts |-> Val("mock", 0),
     portfolioBreakdown |-> Val("mock", 0), systemHealth |-> Val("mock", 0)]

\* who calls refreshData: the 5 s interval, or the Retry Connection button,
\* which the component renders while error is set
RefreshCallers == {"interval", "retry"}

\* refreshData after its await resolved: the setData updater of the try block
dashRefreshThen(prev, r) ==
    [prev EXCEPT !.metrics = Val("refresh", r), !.varHistory = Val("refresh", r),
                 !.riskAlerts = Val("refresh", r),
                 !.portfolioBreakdown = Val("refresh", r)]

\* the error refreshData leaves when its try block completes
dashErrorAfterSuccess(e) == e

\* refreshData up to its await: setLoading(true), the four calls started
DashRefresh(by) ==
    /\ dashSeq < MaxRefreshes
    /\ (by = "retry") => (dashError # NoError)
    /\ dashLoading' = TRUE
    /\ dashSeq' = dashSeq + 1
    /\ dashRefreshes' = dashRefreshes \cup
            {[id |-> dashSeq + 1, by |-> by, pending |-> "some"]}
    /\ last' = [op |-> "dashRefresh", id |-> dashSeq + 1, by |-> by]
    /\ UNCHANGED <<dashData, dashError, dashLastUpdated>>

\* members of the Promise.all of refresh r fulfil until one is pending
DashRefreshMemberFulfil(r) ==
    /\ r \in dashRefreshes
    /\ r.pending = "some"
    /\ dashRefreshes' = (dashRefreshes \ {r}) \cup {[r EXCEPT !.pending = "one"]}
    /\ last' = [op |-> "dashMemberFulfilled", id |-> r.id]
    /\ UNCHANGED <<dashData, dashLoading, dashError, dashLastUpdated, dashSeq>>

\* the last member fulfils: the rest of the try block, then finally
DashRefreshResolve(r) ==
    /\ r \in dashRefreshes
    /\ r.pending = "one"
    /\ dashRefreshes' = dashRefreshes \ {r}
    /\ dashData' = dashRefreshThen(dashData, r.id)
    /\ dashLastUpdated' = Date("refresh", r.id)
    /\ dashError' = dashErrorAfterSuccess(dashError)
    /\ dashLoading' = FALSE
    /\ last' = [op |-> "dashRefreshDone", id |-> r.id, by |-> r.by,
                alone |-> (dashRefreshes = {r})]
    /\ UNCHANGED dashSeq

\* a member rejects: catch, then finally
DashRefreshReject(r) ==
    /\ r \in dashRefreshes
    /\ dashRefreshes' = dashRefreshes \ {r}
    /\ dashError' = "Failed to load data"
    /\ dashLoading' = FALSE
    /\ last' = [op |-> "dashRefreshFailed", id |-> r.id]
    /\ UNCHANGED <<dashData, dashLastUpdated, dashSeq>>

\* the callback the component registers on market_data, called by the
\* service's interval
DashMarketEvent ==
    /\ dashData' = [dashData EXCEPT !.metrics = Val("market", 0)]
    /\ dashLastUpdated' = Date("live", 0)
    /\ last' = [op |-> "dashMarket"]
    /\ UNCHANGED <<dashLoading, dashError, dashRefreshes, dashSeq>>

----------------------------------------------------------------------------

InitCache ==
    /\ now = 0
    /\ cache = <<>>
    /\ timers = {}
    /\ stores = 0
    /\ stored = <<>>

InitBus ==
    /\ feedDue = FeedPeriod
    /\ firedAt = [t \in SessionTimers |-> NoTime]
    /\ eventListeners = <<>>
    /\ nextId = 1
    /\ handles = <<>>

InitGateway ==
    /\ pending = [c \in LambdaCalls |-> 0]
    /\ fetching = {}
    /\ fetched = 0

\* the hook after its first render and effects: the initial loadData awaits
\* getAllDashboardData, the real-time effect returned early (data is null),
\* the connectionCheck interval is set
InitSession ==
    /\ mounted = TRUE
    /\ data = NoData
    /\ loading = TRUE
    /\ error = NoError
    /\ lastUpdated = NoDate
    /\ isRealTimeConnected = FALSE
    /\ loads = <<"some">>
    /\ loadSeq = 1
    /\ retries = {}
    /\ intervalsAt = NoTime
    /\ readyAt = NoTime
    /\ rtActive = FALSE
    /\ effectStale = FALSE
    /\ connActive = TRUE
    /\ recoveries = 0
    /\ calls = [loop \in Loops |-> 0]

\* the component's hook after its mount effect: state as declared, the
\* initial refreshData awaiting its Promise.all
InitComponent ==
    /\ dashData = MockData
    /\ dashLoading = TRUE
    /\ dashError = NoError
    /\ dashLastUpdated = Date("mount", 0)
    /\ dashRefreshes = {[id |-> 1, by |-> "mount", pending |-> "some"]}
    /\ dashSeq = 1

Init ==
    /\ InitCache
    /\ InitBus
    /\ InitGateway
    /\ InitSession
    /\ InitComponent
    /\ last = [op |-> "init"]

NextCache ==
    \/ \E k \in Keys, v \in Values, t \in TtlChoices :
          setCache(k, v, t) /\ UNCHANGED <<busVars, gatewayVars, sessionVars, componentVars, feedDue, firedAt>>
    \/ \E k \in Keys : getCache(k) /\ UNCHANGED <<busVars, gatewayVars, sessionVars, componentVars, feedDue, firedAt>>
    \/ \E t \in timers : CacheCleanup(t) /\ UNCHANGED <<busVars, gatewayVars, sessionVars, componentVars, feedDue, firedAt>>
    \/ Advance /\ UNCHANGED <<busVars, gatewayVars, sessionVars, componentVars, feedDue, firedAt>>

SpecCache == Init /\ [][NextCache]_vars

NextBus ==
    \/ \E topic \in Topics, kind \in BusKinds :
          subscribeToKafkaTopic(topic, kind) /\ UNCHANGED <<cacheVars, gatewayVars, sessionVars, componentVars, feedDue, firedAt>>
    \/ \E topic \in Topics, payload \in MsgValues :
          emitKafkaEvent("producer", topic, payload) /\ UNCHANGED <<cacheVars, gatewayVars, componentVars, feedDue, firedAt, emitFrame>>
    \/ \E payload \in MsgValues : FeedTick(payload) /\ UNCHANGED <<cacheVars, gatewayVars, componentVars, feedDue, firedAt, emitFrame>>
    \/ \E id \in DOMAIN handles : Unsubscribe(id) /\ UNCHANGED <<cacheVars, gatewayVars, sessionVars, componentVars, feedDue, firedAt>>

SpecBus == Init /\ [][NextBus]_vars

NextGateway ==
    \/ \E c \in LambdaCalls : invokeLambdaFunction(c) /\ UNCHANGED <<cacheVars, busVars, sessionVars, componentVars, feedDue, firedAt, metricsVars>>
    \/ \E c \in LambdaCalls : invokeLambdaSettle(c) /\ UNCHANGED <<cacheVars, busVars, sessionVars, componentVars, feedDue, firedAt, metricsVars>>

SpecGateway == Init /\ [][NextGateway]_vars

\* the metrics read-through: callers of fetchRealTimeMetrics, the cleanup
\* timers and the clock
NextMetrics ==
    \/ fetchRealTimeMetrics /\ UNCHANGED <<busVars, sessionVars, componentVars, feedDue, firedAt>>
    \/ \E f \in fetching : fetchRealTimeMetricsSettle(f) /\ UNCHANGED <<busVars, sessionVars, componentVars, feedDue, firedAt>>
    \/ \E t \in timers : CacheCleanup(t) /\ UNCHANGED <<busVars, gatewayVars, sessionVars, componentVars, feedDue, firedAt>>
    \/ Elapse /\ UNCHANGED <<busVars, sessionVars, componentVars, feedDue, firedAt>>

SpecMetrics == Init /\ [][NextMetrics]_vars

NextQuery == \E query \in Queries : executeGraphQLQuery(query)

SpecQuery == Init /\ [][NextQuery]_vars

\* the dashboard component's built-in session: refreshes by its interval and
\* its retry button, and the market events of its service
NextComponent ==
    \/ \E by \in RefreshCallers : DashRefresh(by) /\ UNCHANGED componentRest
    \/ \E r \in dashRefreshes : DashRefreshMemberFulfil(r) /\ UNCHANGED componentRest
    \/ \E r \in dashRefreshes : DashRefreshResolve(r) /\ UNCHANGED componentRest
    \/ \E r \in dashRefreshes : DashRefreshReject(r) /\ UNCHANGED componentRest
    \/ DashMarketEvent /\ UNCHANGED componentRest

SpecComponent == Init /\ [][NextComponent]_vars

rest == <<cacheVars, gatewayVars, componentVars, feedDue, firedAt>>

\* a mounted session, the feed, and a producer publishing on the topics the
\* session listens to
Next ==
    \/ refreshData /\ UNCHANGED rest
    \/ \E l \in DOMAIN loads : LoadMemberFulfil(l) /\ UNCHANGED rest
    \/ \E l \in DOMAIN loads, feed \in MarketFeeds :
          LoadResolve(l, feed) /\ UNCHANGED rest
    \/ \E l \in DOMAIN loads, m \in DOMAIN Members, kind \in ErrKinds :
          LoadReject(l, m, kind) /\ UNCHANGED rest
    \/ RunEffect /\ UNCHANGED rest
    \/ \E loop \in Loops : Tick(loop) /\ UNCHANGED rest
    \/ \E loop \in Loops, up \in BOOLEAN : TickFulfil(loop, up) /\ UNCHANGED rest
    \/ \E loop \in Loops : TickReject(loop) /\ UNCHANGED rest
    \/ \E c \in BOOLEAN : ConnectionCheck(c) /\ UNCHANGED rest
    \/ Recovery /\ UNCHANGED rest
    \/ FeedTick(SessionPayload) /\ UNCHANGED <<rest, emitFrame>>
    \/ ProducerAlert(SessionPayload) /\ UNCHANGED <<rest, emitFrame>>

Spec == Init /\ [][Next]_vars

\* a mounted session on the clock: its initial load, the real-time effect
\* and the market feed firing every FeedPeriod
loopsRest == <<gatewayVars, componentVars, firedAt>>
NextLoops ==
    \/ \E l \in DOMAIN loads : LoadMemberFulfil(l) /\ UNCHANGED <<rest>>
    \/ \E l \in DOMAIN loads, feed \in MarketFeeds :
          LoadResolve(l, feed) /\ UNCHANGED <<rest>>
    \/ \E l \in DOMAIN loads, m \in DOMAIN Members, kind \in ErrKinds :
          LoadReject(l, m, kind) /\ UNCHANGED <<rest>>
    \/ RunEffect /\ UNCHANGED <<rest>>
    \/ FeedInterval /\ UNCHANGED <<cacheVars, loopsRest, emitFrame>>
    \/ FeedPeriodPasses /\ UNCHANGED <<busVars, sessionVars, loopsRest>>

SpecLoops == Init /\ [][NextLoops]_vars

\* a session that is never refreshed, from its mount to its unmount and after
NextTeardown ==
    \/ \E l \in DOMAIN loads : LoadMemberFulfil(l) /\ UNCHANGED rest
    \/ \E l \in DOMAIN loads, feed \in MarketFeeds :
          LoadResolve(l, feed) /\ UNCHANGED rest
    \/ \E l \in DOMAIN loads, m \in DOMAIN Members, kind \in ErrKinds :
          LoadReject(l, m, kind) /\ UNCHANGED rest
    \/ RunEffect /\ UNCHANGED rest
    \/ \E loop \in Loops : Tick(loop) /\ UNCHANGED rest
    \/ \E loop \in Loops, up \in BOOLEAN : TickFulfil(loop, up) /\ UNCHANGED rest
    \/ \E loop \in Loops : TickReject(loop) /\ UNCHANGED rest
    \/ \E c \in BOOLEAN : ConnectionCheck(c) /\ UNCHANGED rest
    \/ Recovery /\ UNCHANGED rest
    \/ FeedTick(SessionPayload) /\ UNCHANGED <<rest, emitFrame>>
    \/ ProducerAlert(SessionPayload) /\ UNCHANGED <<rest, emitFrame>>
    \/ Unmount /\ UNCHANGED rest

SpecTeardown == Init /\ [][NextTeardown]_vars

----------------------------------------------------------------------------
(* Claims *)

StoreExpiry(s) == s.at + s.ttlSeconds * MsPerSecond

\* C1: after setCache(K, v, t) with t > 0 and no later store to K, getCache(K)
\* returns v at every time before t seconds after the store and null from
\* t seconds on, whether or not the cleanup timer has run.
C1_FetchWithinTtl ==
    (last.op = "getCache" /\ MapHas(stored, last.key)
        /\ stored[last.key].ttlSeconds > 0) =>
    LET s == stored[last.key] IN
        /\ (last.at < StoreExpiry(s)) => (last.result = s.value)
        /\ (last.at >= StoreExpiry(s)) => (last.result = Null)

\* a getCache exactly at the expiry instant of a non-null value, the cleanup
\* timer of that store still pending
C1_Witness ==
    /\ last.op = "getCache"
    /\ MapHas(stored, last.key)
    /\ stored[last.key].ttlSeconds > 0
    /\ stored[last.key].value # Null
    /\ last.at = StoreExpiry(stored[last.key])
    /\ last.result = Null
    /\ \E t \in timers : t.key = last.key /\ t.due = last.at

\* C8: a setCache(K, v2, t2) issued while an entry for K is live replaces value
\* and expiry: until t2 seconds after the second store the map holds exactly
\* the new entry (the first store's timer does not remove it, no TTL is added
\* or merged) and getCache returns v2; from then on getCache returns null.
C8_OverwriteReplaces ==
    \A k \in DOMAIN stored :
        stored[k].live =>
        LET s == stored[k] IN
            /\ (now < StoreExpiry(s)) =>
                   (MapHas(cache, k) /\ cache[k] =
                       [data |-> s.value, timestamp |-> s.at, ttl |-> StoreExpiry(s)])
            /\ (last.op = "getCache" /\ last.key = k) =>
                   (last.result = IF last.at < StoreExpiry(s) THEN s.value ELSE Null)

\* v2 is read back after the first store's expiry has passed and its timer
\* has fired, the second store having a different expiry
C8_Witness ==
    /\ last.op = "getCache"
    /\ MapHas(stored, last.key)
    /\ LET s == stored[last.key] IN
           /\ s.live
           /\ s.over.ttl # StoreExpiry(s)
           /\ s.over.data # s.value
           /\ last.at >= s.over.ttl
           /\ last.at < StoreExpiry(s)
           /\ last.result = s.value
           /\ ~ \E t \in timers : t.key = last.key /\ t.id < s.id

----------------------------------------------------------------------------
(* Claims about the topic bus *)

\* the calls a publish on last.topic owes: one per callback registered for
\* the topic before the publish, in registration order, each with the message
ExpectedDelivery ==
    [i \in 1..Len(last.before) |->
        [id |-> last.before[i].id, message |-> KafkaMessage(last.topic, last.value)]]

\* C2: emitKafkaEvent(topic, data) invokes exactly the handlers registered for
\* the topic before the publish began, each once, in registration order, all
\* with the same message; handlers of other topics and handlers registered
\* during the publish are not invoked.
C2_DeliversToRegistered ==
    (last.op = "emit") => (last.delivered = ExpectedDelivery)

\* the same, for the publishes in which no callback throws
DeliveryExactUnlessThrown ==
    (last.op = "emit" /\ ~last.threw) => (last.delivered = ExpectedDelivery)

\* a publish in which a callback registered a further one and none threw
DeliveryDuringSubscribe ==
    /\ last.op = "emit"
    /\ ~last.threw
    /\ Len(last.before) >= 2
    /\ Len(Listeners(eventListeners, last.topic)) > Len(last.before)

\* C6: subscribeToKafkaTopic returns a handle; unsubscribing it removes that
\* registration and does not throw, the first time and the second.
C6_UnsubscribeRemoves ==
    (last.op = "unsubscribe") =>
        (~last.threw /\ ~Registered(eventListeners, last.id))

\* C7: when a handler throws during a publish, every handler registered after
\* it for the topic is still invoked for that event, and the fault does not
\* reach the publisher.
C7_HandlerFaultIsolated ==
    (last.op = "emit") =>
        /\ ~last.threw
        /\ \A i \in 1..Len(last.before) : \A j \in 1..Len(last.before) :
              (i < j /\ last.before[i].kind = "throws") =>
                  \E d \in 1..Len(last.delivered) : last.delivered[d].id = last.before[j].id

----------------------------------------------------------------------------
(* Claims about the source gateway *)

KnownLambdas == {"RISK_CALCULATION", "PORTFOLIO_ANALYSIS", "ALERT_PROCESSOR"}

LambdaContract(functionName, result) ==
    IF functionName \in KnownLambdas
    THEN /\ result.settled = "resolved"
         /\ result.statusCode = 200
         /\ (functionName = "ALERT_PROCESSOR") => ("alerts" \in result.body)
    ELSE /\ result.settled = "rejected"
         /\ result.message = "Unknown Lambda function"

\* C9: invokeLambdaFunction resolves with statusCode 200 for RISK_CALCULATION,
\* PORTFOLIO_ANALYSIS and ALERT_PROCESSOR (body.alerts present for the last),
\* and fails with an unknown-operation error for every other name.
C9_InvokeDispatch ==
    (last.op = "invokeSettled") =>
        LambdaContract(last.call.functionName, last.result)

\* the same, of RiskAnalyticsAPI alone
ApiInvokeDispatch ==
    (last.op = "invokeSettled" /\ last.call.impl = "RiskAnalyticsAPI") =>
        LambdaContract(last.call.functionName, last.result)

----------------------------------------------------------------------------
(* Claims about the session *)

\* C3: a full load one of whose members rejects stores nothing: data is left
\* as it was (still null while the initial load is the only one), error is
\* set to a non-null message and loading is false.
C3_LoadAllOrNothing ==
    [][(last'.op = "loadFailed" /\ mounted) =>
          /\ data' = data
          /\ (loadSeq = 1) => (data' = NoData)
          /\ error' # NoError
          /\ loading' = FALSE]_vars

\* the time-series query of the initial load rejected after the five other
\* members had fulfilled
C3_Witness ==
    /\ last.op = "loadFailed"
    /\ last.id = 1
    /\ last.member = "GetVarHistory"
    /\ last.othersFulfilled
    /\ mounted
    /\ loadSeq = 1
    /\ data = NoData
    /\ error # NoError
    /\ ~loading

\* C4: a rejected tick of the metrics, VaR or health loop leaves every field
\* of the snapshot as it was, and the loops' timers stay set: later ticks of
\* that loop and of the others still run.
C4_TickFailureKeepsSnapshot ==
    [][(last'.op = "tickFailed") =>
          /\ data' = data
          /\ rtActive' = rtActive
          /\ connActive' = connActive]_vars

\* a tick of the metrics loop rejected with a snapshot present whose metrics
\* came from the initial load, the loops still running
C4_Witness ==
    /\ last.op = "tickFailed"
    /\ last.loop = "metrics"
    /\ mounted
    /\ rtActive
    /\ data # NoData
    /\ data.metrics = Val("load", 1)

\* C5: whenever a snapshot exists its alert list holds at most 10 entries,
\* after alert events and right after a full load alike.
C5_AlertsCapped ==
    (data # NoData) => (Len(data.riskAlerts) <= AlertsKept + 1)

\* the same, of the states an alert event delivered to the session leaves
AlertEventsCapped ==
    (last.op = "emit" /\ last.topic = "risk_alerts" /\ last.delivered # <<>>
        /\ mounted /\ data # NoData) =>
        (Len(data.riskAlerts) <= AlertsKept + 1)

\* the session's handlers registered on the bus
SessionHandlers ==
    {h \in UNION {{eventListeners[t][i] : i \in 1..Len(eventListeners[t])} :
                    t \in DOMAIN eventListeners} : h.kind \in {"market", "alerts"}}

\* C10: after teardown none of the session's four timers is active and none
\* of its handlers is registered on market_data or risk_alerts.
C10_TeardownDetaches ==
    (~mounted) => (~rtActive /\ ~connActive /\ SessionHandlers = {})

\* the same, of the timers alone
TeardownStopsTimers ==
    (~mounted) => (~rtActive /\ ~connActive)

----------------------------------------------------------------------------
(* Further claims about the cache *)

\* C11: a cleanup timer that fires after the entry it was set for has been
\* evicted or overwritten by a later setCache on its key changes nothing: the
\* map is as before, the newer entry is not deleted by the older timer.
C11_StaleCleanupNoOp ==
    [][(last'.op = "cleanup" /\ MapHas(stored, last'.key)
          /\ (last'.id < stored[last'.key].id \/ ~MapHas(cache, last'.key))) =>
            cache' = cache]_vars

\* the same, of the timers that find a live entry under their key
CleanupSparesLive ==
    [][(last'.op = "cleanup" /\ MapHas(cache, last'.key)
          /\ EntryLive(cache[last'.key])) => cache' = cache]_vars

\* an older store's timer has just deleted a newer entry
StaleCleanupDeleted ==
    /\ last.op = "cleanup"
    /\ MapHas(stored, last.key)
    /\ last.id < stored[last.key].id
    /\ ~MapHas(cache, last.key)

\* C12: fetchRealTimeMetrics called while a live entry is under
\* 'realtime_metrics' returns that entry's value, starts no remote fetch and
\* leaves the cache as it is; on a miss it fetches remotely, stores the result
\* under 'realtime_metrics' with a TTL of 5 s and returns what it stored.
C12_MetricsReadThrough ==
    [][/\ (last'.op = "fetchMetrics") =>
            IF MapHas(cache, MetricsKey) /\ EntryLive(cache[MetricsKey])
            THEN /\ last'.hit
                 /\ last'.result = cache[MetricsKey].data
                 /\ cache' = cache
                 /\ fetching' = fetching
                 /\ fetched' = fetched
                 /\ stores' = stores
            ELSE /\ ~last'.hit
                 /\ Cardinality(fetching') = Cardinality(fetching) + 1
       /\ (last'.op = "fetchDone") =>
            /\ fetched' = fetched + 1
            /\ MapHas(cache', MetricsKey)
            /\ cache'[MetricsKey] =
                  [data |-> last'.result, timestamp |-> now,
                   ttl |-> now + MetricsTtl * MsPerSecond]]_vars

\* a hit on the entry the second remote fetch stored, the first having expired
C12_Witness ==
    /\ last.op = "fetchMetrics"
    /\ last.hit
    /\ fetched = 2
    /\ last.result = RemoteMetrics(2)
    /\ fetching = {}

----------------------------------------------------------------------------
(* Claims about the connection indicator *)

\* a health-check tick has just ended with a probe failure: a service was
\* reported DOWN, or the health check rejected
HealthProbeFailed ==
    \/ last.op = "tickDone" /\ last.loop = "health" /\ ~last.up
    \/ last.op = "tickFailed" /\ last.loop = "health"

\* C13: a health-probe cycle in which a probe fails (a service reported DOWN,
\* or the health check rejecting) leaves isRealTimeConnected false.
C13_ProbeFailureDegrades ==
    (mounted /\ HealthProbeFailed) => ~isRealTimeConnected

\* the same, of the cycles in which the health check rejects
ProbeRejectionDegrades ==
    (mounted /\ last.op = "tickFailed" /\ last.loop = "health") => ~isRealTimeConnected

\* C14: with isRealTimeConnected false, the next health-probe cycle that
\* succeeds sets isRealTimeConnected back to true.
C14_ProbeSuccessRestores ==
    [][(mounted /\ ~isRealTimeConnected /\ last'.op = "tickDone"
          /\ last'.loop = "health" /\ last'.up) => isRealTimeConnected']_vars

\* a successful health tick leaves the indicator as it was
ProbeSuccessKeepsIndicator ==
    [][(last'.op = "tickDone" /\ last'.loop = "health") =>
          isRealTimeConnected' = isRealTimeConnected]_vars

----------------------------------------------------------------------------
(* Claims about retrying a failed load *)

C16_ComponentRetryRecovers ==
    [][(last'.op = "dashRefreshDone" /\ last'.by = "retry" /\ last'.alone) =>
          dashError' = NoError]_vars

\* the built-in session never clears error once it is set
ComponentErrorSticks ==
    [][(dashError # NoError) => (dashError' = dashError)]_vars

----------------------------------------------------------------------------
(* Claims about executeGraphQLQuery *)

\* C17: executeGraphQLQuery never fails: a text containing 'varHistory' takes
\* the time-series branch (also when it contains 'sectorExposure'), a text
\* containing only 'sectorExposure' the breakdown branch, and a text
\* containing neither resolves with {data: null}.
C17_QueryDispatch ==
    (last.op = "graphql") =>
        LET hasVar == Includes(last.query, VarHistoryWord)
            hasSector == Includes(last.query, SectorExposureWord)
        IN  /\ last.result.settled = "resolved"
            /\ hasVar => (last.result.data = "varHistory")
            /\ (~hasVar /\ hasSector) => (last.result.data = "sectorExposure")
            /\ (~hasVar /\ ~hasSector) => (last.result.data = "null")

\* a text holding 'sectorExposure' and then 'varHistory' took the
\* time-series branch
C17_Witness ==
    /\ last.op = "graphql"
    /\ last.query = SectorExposureWord \o VarHistoryWord
    /\ last.result.data = "varHistory"

----------------------------------------------------------------------------
(* Claims about cache entries *)

\* C18: every entry the cache holds satisfies ttl > timestamp (expiresAt >
\* storedAt), whatever ttlSeconds setCache was called with.
C18_ExpiryAfterStore ==
    \A k \in DOMAIN cache : cache[k].ttl > cache[k].timestamp

\* every entry's expiry is its store time plus the ttlSeconds it was stored with
EntryExpiryFromTtl ==
    \A k \in DOMAIN cache :
        /\ MapHas(stored, k)
        /\ cache[k].timestamp = stored[k].at
        /\ cache[k].ttl = StoreExpiry(stored[k])

\* C19: getCache on a key whose entry has now >= ttl returns null and removes
\* the entry, though it was still in the map; getCache on a live entry or on
\* a missing key leaves the map unchanged.
C19_LazyEviction ==
    [][(last'.op = "getCache") =>
          LET k == last'.key IN
          IF MapHas(cache, k) /\ now >= cache[k].ttl
          THEN /\ last'.result = Null
               /\ cache' = MapDelete(cache, k)
          ELSE cache' = cache]_vars

\* a read at the very instant of expiry removed an entry holding a non-null
\* value, before its cleanup timer had run
C19_Witness ==
    /\ last.op = "getCache"
    /\ last.purged
    /\ last.result = Null
    /\ ~MapHas(cache, last.key)
    /\ MapHas(stored, last.key)
    /\ stored[last.key].value # Null
    /\ last.at = StoreExpiry(stored[last.key])
    /\ \E t \in timers : t.key = last.key /\ t.id = stored[last.key].id

----------------------------------------------------------------------------
(* Claims about the refresh loops *)

\* C20: once the session is Ready and stays mounted each loop keeps its
\* period while market events arrive every 100 ms: no tick having run yet,
\* the first tick of each loop is due one period after Ready, give or take
\* one event interval.
C20_LoopsKeepPeriod ==
    (mounted /\ rtActive /\ readyAt # NoTime) =>
        \A loop \in Loops : NextTickDue(loop) <= readyAt + Period(loop) + FeedPeriod

\* every run of the real-time effect with data present sets the three
\* intervals anew, counting from the time of the run
EffectResetsIntervals ==
    [][(last'.op = "effect" /\ data # NoData) => (intervalsAt' = now)]_vars

----------------------------------------------------------------------------
(* Claims about bursts of callers and about the join of a load *)

\* C22: among fetchRealTimeMetrics calls started within one TTL window on an
\* initially empty cache exactly one performs the remote fetch and all receive
\* its value: a call started while a remote fetch is in flight starts no
\* second one, and a fetch completing while a stored entry is live returns
\* that entry's value.
C22_BurstAbsorbed ==
    [][/\ (last'.op = "fetchMetrics" /\ fetching # {}) => (fetching' = fetching)
       /\ (last'.op = "fetchDone" /\ MapHas(cache, MetricsKey)
             /\ EntryLive(cache[MetricsKey])) =>
                (last'.result = cache[MetricsKey].data)]_vars

\* two remote fetches are in flight at once
BurstFetchedTwice == Cardinality(fetching) >= 2

\* C23: the outcome of a load's join, the snapshot or the error, reaches the
\* session only once every member call has settled, when the load fails as
\* when it succeeds.
C23_JoinIsBarrier ==
    [][(last'.op \in {"loadSucceeded", "loadFailed"}) =>
          (loads[last'.id] = "one")]_vars

\* the same, of the loads that succeed
JoinSuccessIsBarrier ==
    [][(last'.op = "loadSucceeded") => (loads[last'.id] = "one")]_vars

----------------------------------------------------------------------------
(* The session on the clock: the cache, the feed, the fast loop and the     *)
(* connection monitor, every timer firing when it is due                    *)

\* when an interval of the session fires next: one period after it was set
\* or after it last fired; the connection check is set once, at mount
NextFire(t) ==
    IF t = "connection"
    THEN IF firedAt[t] = NoTime THEN ConnectionPeriod ELSE firedAt[t] + ConnectionPeriod
    ELSE IF firedAt[t] > intervalsAt THEN firedAt[t] + Period(t)
         ELSE intervalsAt + Period(t)

\* when the setTimeout of the last connection check fires
RecoveryDue == firedAt["connection"] + RecoveryDelay

\* the session's frame of a tick of the fast loop
tickFrame == <<mounted, loads, loadSeq, retries, intervalsAt, readyAt, rtActive,
               connActive, recoveries, busVars, componentVars, feedDue>>

\* the metricsInterval callback up to its await: fetchRealTimeMetrics is
\* called; on a hit the callback continues at once with the cached value
MetricsIntervalFires ==
    /\ rtActive
    /\ now >= NextFire("metrics")
    /\ CallsTotal < MaxInFlight
    /\ firedAt' = [firedAt EXCEPT !["metrics"] = now]
    /\ fetchRealTimeMetricsCall
    /\ IF fetchRealTimeMetricsHit
       THEN /\ SetHook(tickThen(Hook, "metrics"))
            /\ UNCHANGED calls
       ELSE /\ calls' = [calls EXCEPT !["metrics"] = @ + 1]
            /\ UNCHANGED <<hookVars, effectStale>>
    /\ last' = [op |-> "metricsTick", hit |-> fetchRealTimeMetricsHit, at |-> now,
                result |-> IF fetchRealTimeMetricsHit THEN getCacheResult(MetricsKey)
                           ELSE Null]
    /\ UNCHANGED tickFrame

\* the remote fetch of a tick completes: setCache, then the rest of the callback
MetricsTickSettle(f) ==
    /\ calls["metrics"] > 0
    /\ fetchRealTimeMetricsStore(f)
    /\ calls' = [calls EXCEPT !["metrics"] = @ - 1]
    /\ SetHook(tickThen(Hook, "metrics"))
    /\ last' = [op |-> "metricsTickDone", id |-> f.id, at |-> now,
                result |-> RemoteMetrics(fetched + 1)]
    /\ UNCHANGED <<tickFrame, firedAt>>

\* the remote fetch of the initial load, a member of its join, completes
LoadMetricsSettle(f) ==
    /\ calls["metrics"] = 0
    /\ fetchRealTimeMetricsStore(f)
    /\ last' = [op |-> "fetchDone", id |-> f.id, at |-> now,
                result |-> RemoteMetrics(fetched + 1)]
    /\ UNCHANGED <<busVars, sessionVars, componentVars, feedDue, firedAt>>

\* the connectionCheck interval fires
ConnectionIntervalFires(isConnected) ==
    /\ now >= NextFire("connection")
    /\ firedAt' = [firedAt EXCEPT !["connection"] = now]
    /\ ConnectionCheck(isConnected)

\* the setTimeout of a connection check fires
RecoveryFires ==
    /\ now >= RecoveryDue
    /\ Recovery

\* a callback that throws is registered on market_data before the session's
FaultySubscribe ==
    /\ nextId = 1
    /\ now = 0
    /\ subscribeToKafkaTopic("market_data", "throws")

\* the times at which something is due: the feed, the remote fetches, the
\* cleanup timers, the intervals of the session, the reconnection, and the
\* latest time the members of the initial load take
ClockDues ==
    {feedDue} \cup {f.due : f \in fetching} \cup {t.due : t \in timers}
      \cup (IF rtActive THEN {NextFire(loop) : loop \in Loops} ELSE {})
      \cup (IF connActive THEN {NextFire("connection")} ELSE {})
      \cup (IF recoveries > 0 THEN {RecoveryDue} ELSE {})
      \cup (IF DOMAIN loads # {} THEN {PingLatencyMax} ELSE {})

ClockEnd == MaxClockSeconds * MsPerSecond

\* time passes up to the next moment something is due; nothing that is due
\* is skipped, and React has run the effects of the last render
TimePasses ==
    /\ ~effectStale
    /\ \A d \in ClockDues : d > now
    /\ \E next \in ClockDues :
          /\ \A d \in ClockDues : next <= d
          /\ next <= ClockEnd
          /\ now' = next
    /\ last' = [op |-> "pass"]
    /\ UNCHANGED <<cache, timers, stores, stored, busVars, gatewayVars, sessionVars,
                   componentVars, feedDue, firedAt>>

\* the initial load awaits getAllDashboardData, whose fetchRealTimeMetrics
\* missed the empty cache and awaits delay(12)
InitClock ==
    /\ InitCache
    /\ InitBus
    /\ pending = [c \in LambdaCalls |-> 0]
    /\ fetching = {[id |-> 1, due |-> FetchLatency]}
    /\ fetched = 0
    /\ InitSession
    /\ InitComponent
    /\ last = [op |-> "init"]

NextClock ==
    \/ FaultySubscribe /\ UNCHANGED <<cacheVars, gatewayVars, sessionVars, componentVars, feedDue, firedAt>>
    \/ \E f \in fetching : LoadMetricsSettle(f)
    \/ \E l \in DOMAIN loads : LoadMemberFulfil(l) /\ UNCHANGED rest
    \/ \E l \in DOMAIN loads, feed \in MarketFeeds :
          (fetched >= 1) /\ LoadResolve(l, feed) /\ UNCHANGED rest
    \/ \E l \in DOMAIN loads, m \in DOMAIN Members, kind \in ErrKinds :
          LoadReject(l, m, kind) /\ UNCHANGED rest
    \/ ((data # NoData) => (nextId < 2 * MaxClockEffects)) /\ EffectRun /\ UNCHANGED rest
    \/ FeedInterval /\ UNCHANGED <<cacheVars, loopsRest, emitFrame>>
    \/ MetricsIntervalFires
    \/ \E f \in fetching : MetricsTickSettle(f)
    \/ \E t \in timers : CacheCleanup(t) /\ UNCHANGED <<busVars, gatewayVars, sessionVars, componentVars, feedDue, firedAt>>
    \/ \E c \in BOOLEAN : ConnectionIntervalFires(c) /\ UNCHANGED <<cacheVars, gatewayVars, componentVars, feedDue>>
    \/ RecoveryFires /\ UNCHANGED rest
    \/ TimePasses

SpecClock == InitClock /\ [][NextClock]_vars

----------------------------------------------------------------------------
(* Claims about the session on the clock *)

C24_CheckSchedulesRecovery ==
    [][/\ (last'.op = "connectionCheck" /\ ~last'.isConnected) =>
            /\ recoveries' = recoveries + 1
            /\ mounted => ~isRealTimeConnected'
       /\ (last'.op = "recovery") =>
            /\ now = RecoveryDue
            /\ recoveries' = recoveries - 1
            /\ mounted => isRealTimeConnected']_vars

\* a Ready session whose first connection check, at 10 s, found the
\* connection lost has been set connected again at 12 s
C24_Witness ==
    /\ last.op = "recovery"
    /\ mounted
    /\ data # NoData
    /\ error = NoError
    /\ firedAt["connection"] = ConnectionPeriod
    /\ now = ConnectionPeriod + RecoveryDelay
    /\ recoveries = 0
    /\ isRealTimeConnected

----------------------------------------------------------------------------
(* Claims about failures after the initial load *)

\* C25: when the call of a tick of the metrics, VaR or health loop rejects,
\* error stays as it was, the snapshot stays as it was and
\* isRealTimeConnected becomes false.
C25_TickFailureDegrades ==
    [][(last'.op = "tickFailed" /\ mounted) =>
          /\ error' = error
          /\ data' = data
          /\ ~isRealTimeConnected']_vars

\* the same without the indicator: a rejected tick surfaces no error and
\* keeps the snapshot
TickFailureSilent ==
    [][(last'.op = "tickFailed") => (error' = error /\ data' = data)]_vars

\* a tick of the metrics loop has rejected and the session still shows
\* itself connected
MetricsFailureUnnoticed ==
    /\ last.op = "tickFailed"
    /\ last.loop = "metrics"
    /\ mounted
    /\ isRealTimeConnected

\* C26: once error is non-null it stays non-null through every tick, live
\* event, connection check and reconnection; only a load started by
\* refreshData clears it.
C26_ErrorSticksUntilRetry ==
    [][(error # NoError /\ error' = NoError) => (last'.op = "refreshData")]_vars

\* a tick of the metrics loop has completed on a session whose refresh had
\* failed: the snapshot is there and the error is still shown
C26_Witness ==
    /\ last.op = "tickDone"
    /\ last.loop = "metrics"
    /\ mounted
    /\ data # NoData
    /\ data.metrics = Val("tick", 0)
    /\ error # NoError

----------------------------------------------------------------------------
(* Claims about the updaters of the snapshot *)

SnapshotFields == {"metrics", "varHistory", "sectorExposure", "riskAlerts",
                   "portfolioBreakdown", "systemHealth"}

\* the field each loop's updater writes
LoopField(loop) ==
    CASE loop = "metrics" -> "metrics"
      [] loop = "var" -> "varHistory"
      [] loop = "health" -> "systemHealth"

TopicField(topic) == IF topic = "market_data" THEN "metrics" ELSE "riskAlerts"

\* the snapshot differs from the one before the step in field f at most
OnlyFieldChanged(f) ==
    /\ data' # NoData
    /\ \A g \in SnapshotFields \ {f} : data'[g] = data[g]

\* C27: each updater writes one field of the snapshot and leaves the others:
\* a tick of a loop writes that loop's field, a market_data event metrics, a
\* risk_alerts event riskAlerts; the updaters of two different loops give the
\* same snapshot in either order.
C27_UpdatersDisjoint ==
    [][(mounted /\ data # NoData) =>
          /\ (last'.op = "tickDone") => OnlyFieldChanged(LoopField(last'.loop))
          /\ (last'.op = "emit") => OnlyFieldChanged(TopicField(last'.topic))
          /\ \A a \in Loops : \A b \in Loops \ {a} :
                tickThen(tickThen(Hook, a), b).data = tickThen(tickThen(Hook, b), a).data]_vars

\* a market_data event has reached a snapshot whose VaR history a tick had
\* replaced: metrics is the event's, the history is still the tick's and the
\* rest is the load's
C27_Witness ==
    /\ last.op = "emit"
    /\ last.topic = "market_data"
    /\ last.delivered # <<>>
    /\ mounted
    /\ data # NoData
    /\ data.metrics = Val("market", 0)
    /\ data.varHistory = Val("tick", 0)
    /\ data.systemHealth = Val("load", 1)

\* the alerts handlers of the session that a publish on risk_alerts invoked
AlertDeliveries(delivered, before) ==
    {d \in 1..Len(delivered) :
        \E i \in 1..Len(before) :
            before[i].id = delivered[d].id /\ before[i].kind = "alerts"}

\* C28: on each risk_alerts event the new alert becomes the first element of
\* riskAlerts, followed by the first 9 entries of the previous list in their
\* previous order.
C28_AlertPrepended ==
    [][(last'.op = "emit" /\ last'.topic = "risk_alerts" /\ mounted /\ data # NoData
          /\ AlertDeliveries(last'.delivered, last'.before) # {}) =>
            data'.riskAlerts =
                <<NewAlert(KafkaMessage("risk_alerts", last'.value))>>
                    \o Slice(data.riskAlerts, AlertsKept)]_vars

\* the same, of the events delivered to a single alerts handler
AlertPrependedOnce ==
    [][(last'.op = "emit" /\ last'.topic = "risk_alerts" /\ mounted /\ data # NoData
          /\ Cardinality(AlertDeliveries(last'.delivered, last'.before)) = 1) =>
            data'.riskAlerts =
                <<NewAlert(KafkaMessage("risk_alerts", last'.value))>>
                    \o Slice(data.riskAlerts, AlertsKept)]_vars

\* one alert event has put two alerts on the list
AlertPrependedTwice ==
    /\ last.op = "emit"
    /\ last.topic = "risk_alerts"
    /\ Cardinality(AlertDeliveries(last.delivered, last.before)) = 2
    /\ EventAlerts = 2

\* C29: after a full load or refresh that succeeds every field of data is the
\* value that load's join assembled; nothing of the previous snapshot, alerts
\* and metrics of live events included, is carried over.
C29_LoadSupersedes ==
    [][(last'.op = "loadSucceeded" /\ mounted) =>
          \E feed \in MarketFeeds : data' = Dashboard(last'.id, feed)]_vars

\* a refresh has succeeded on a session whose snapshot had been re-rendered
\* twice, by the initial load and by a live update, and holds no alert of an
\* event
C29_Witness ==
    /\ last.op = "loadSucceeded"
    /\ last.id = 2
    /\ mounted
    /\ nextId >= 5
    /\ data # NoData
    /\ data.metrics = Val("load", 2)
    /\ EventAlerts = 0
    /\ MapHas(eventListeners, "risk_alerts")

----------------------------------------------------------------------------
(* The session from its first render: the three effects of the mount, then  *)
(* the session up to its unmount and after                                  *)

\* the hook after its first render, none of its effects having run
InitMount ==
    /\ InitCache
    /\ InitBus
    /\ InitGateway
    /\ InitComponent
    /\ mounted = TRUE
    /\ data = NoData
    /\ loading = TRUE
    /\ error = NoError
    /\ lastUpdated = NoDate
    /\ isRealTimeConnected = FALSE
    /\ loads = <<>>
    /\ loadSeq = 0
    /\ retries = {}
    /\ intervalsAt = NoTime
    /\ readyAt = NoTime
    /\ rtActive = FALSE
    /\ effectStale = TRUE
    /\ connActive = FALSE
    /\ recoveries = 0
    /\ calls = [loop \in Loops |-> 0]
    /\ last = [op |-> "render"]

\* the first effect: loadData up to its await
MountLoad ==
    /\ mounted
    /\ loadSeq = 0
    /\ error' = loadDataStart(Hook).error
    /\ loadSeq' = loadSeq + 1
    /\ loads' = MapSet(loads, loadSeq + 1, "some")
    /\ last' = [op |-> "mountLoad", id |-> loadSeq + 1]
    /\ UNCHANGED <<mounted, data, loading, lastUpdated, isRealTimeConnected, retries,
                   intervalsAt, readyAt, rtActive, effectStale, connActive, recoveries,
                   calls, busVars>>

\* the third effect: the connectionCheck interval is set
MountConnection ==
    /\ mounted
    /\ loadSeq > 0
    /\ ~effectStale
    /\ ~connActive
    /\ connActive' = TRUE
    /\ last' = [op |-> "mountConnection"]
    /\ UNCHANGED <<mounted, hookVars, loads, loadSeq, retries, intervalsAt, readyAt,
                   rtActive, effectStale, recoveries, calls, busVars>>

\* the effects of the first render have run, or the component is gone
MountDone == connActive \/ ~mounted

NextMount ==
    \/ MountLoad /\ UNCHANGED rest
    \/ (~MountDone /\ loadSeq > 0) /\ RunEffect /\ UNCHANGED rest
    \/ MountConnection /\ UNCHANGED rest
    \/ MountDone /\ NextTeardown

SpecMount == InitMount /\ [][NextMount]_vars

\* C30: while data is null, before the first load succeeds or after the
\* initial load has failed, the session has none of its three loop timers
\* set and no handler registered on market_data or risk_alerts.
C30_NoLoopsBeforeReady ==
    (data = NoData) => (~rtActive /\ SessionHandlers = {})

\* the initial load has failed and a market event of the feed has found no
\* handler of the session
C30_Witness ==
    /\ last.op = "emit"
    /\ last.by = "feed"
    /\ last.delivered = <<>>
    /\ mounted
    /\ connActive
    /\ data = NoData
    /\ error # NoError
    /\ loads = <<>>

\* the handlers registered on `topic`, by their ids
TopicHandlerIds(el, topic) ==
    {Listeners(el, topic)[i].id : i \in 1..Len(Listeners(el, topic))}

\* C31: the feed publishes one event per 100 ms period, every published
\* event is the feed's and is on market_data, and no handler subscribed to
\* risk_alerts is invoked.
C31_FeedOnlyMarketData ==
    /\ feedDue % FeedPeriod = 0
    /\ now <= feedDue
    /\ feedDue <= now + FeedPeriod
    /\ (last.op = "emit") =>
          /\ last.by = "feed"
          /\ last.topic = "market_data"
          /\ feedDue = now + FeedPeriod
          /\ \A d \in 1..Len(last.delivered) :
                last.delivered[d].id \notin TopicHandlerIds(eventListeners, "risk_alerts")

\* a feed event is delivered to the session's market handler while the
\* session has a handler registered on risk_alerts
C31_Witness ==
    /\ last.op = "emit"
    /\ last.by = "feed"
    /\ now >= 2 * FeedPeriod
    /\ Len(last.delivered) >= 1
    /\ \E h \in SessionHandlers : h.kind = "alerts"
    /\ TopicHandlerIds(eventListeners, "risk_alerts") # {}

\* C32: a mounted session holds at most one registered handler per topic,
\* one on market_data and one on risk_alerts, in every reachable state.
C32_OneHandlerPerTopic ==
    mounted =>
        \A kind \in {"market", "alerts"} :
            Cardinality({h \in SessionHandlers : h.kind = kind}) <= 1

\* the loads started by refreshData that have not settled; load 1 is the
\* one the mount effect starts
RefreshLoadsInFlight == {l \in DOMAIN loads : l > 1}

\* C33: loading is true in every state in which a load started by
\* refreshData is still in flight, also when loads overlap: the settling of
\* the earlier load does not set loading to false while the later is pending.
C33_LoadingWhileInFlight ==
    (mounted /\ RefreshLoadsInFlight # {}) => loading

\* C34: when two loads overlap, the data, error and lastUpdated left after
\* both have settled are those of the load that was started last, whatever
\* the order in which the two settle: an earlier load that settles last
\* changes none of them, and the later load that settles last leaves its own
\* snapshot and date and no error.
C34_LastStartedWins ==
    [][(/\ mounted
        /\ last'.op \in {"loadSucceeded", "loadFailed"}
        /\ loadSeq > 1
        /\ DOMAIN loads' = {})
       => IF last'.id < loadSeq
          THEN /\ data' = data
               /\ error' = error
               /\ lastUpdated' = lastUpdated
          ELSE (last'.op = "loadSucceeded") =>
                  /\ \E feed \in MarketFeeds : data' = Dashboard(last'.id, feed)
                  /\ error' = NoError
                  /\ lastUpdated' = Date("load", last'.id)]_vars

\* the part of C34 that the code keeps: the later load settling last leaves
\* its own snapshot and date
LaterLoadSettlingLastWins ==
    [][(/\ mounted
        /\ last'.op = "loadSucceeded"
        /\ last'.id = loadSeq
        /\ DOMAIN loads' = {})
       => /\ \E feed \in MarketFeeds : data' = Dashboard(last'.id, feed)
          /\ lastUpdated' = Date("load", last'.id)]_vars

\* C35: while the session is in the error state isRealTimeConnected stays
\* false: no step other than a successful load turns the indicator to true
\* while error is non-null.
C35_ErrorKeepsDisconnected ==
    [][(/\ mounted
        /\ error # NoError
        /\ ~isRealTimeConnected
        /\ last'.op # "loadSucceeded")
       => ~isRealTimeConnected']_vars

----------------------------------------------------------------------------
(* The loads of a mounted session under fair scheduling: every gateway call
   settles (each is a finite timer, delay(ms)) and React runs the effects of
   a render before the next update. *)

\* load l takes its next step: a member fulfils, the join resolves, or a
\* member rejects
LoadSettles(l) ==
    \/ LoadMemberFulfil(l) /\ UNCHANGED rest
    \/ \E feed \in MarketFeeds : LoadResolve(l, feed) /\ UNCHANGED rest
    \/ \E m \in DOMAIN Members, kind \in ErrKinds : LoadReject(l, m, kind) /\ UNCHANGED rest

NextLoading ==
    \/ refreshData /\ UNCHANGED rest
    \/ \E l \in DOMAIN loads : LoadSettles(l)
    \/ RunEffect /\ UNCHANGED rest
    \/ \E c \in BOOLEAN : ConnectionCheck(c) /\ UNCHANGED rest
    \/ Recovery /\ UNCHANGED rest

LoadingFairness ==
    /\ \A l \in 1..MaxLoads : WF_vars(LoadSettles(l))
    /\ WF_vars(RunEffect /\ UNCHANGED rest)

SpecLoading == Init /\ [][NextLoading]_vars /\ LoadingFairness

\* C36: provided each gateway call eventually settles, every loadData or
\* refreshData invocation is eventually followed by loading = false, on the
\* success path and on the failure path alike.
C36_LoadingTerminates ==
    \A l \in 1..MaxLoads : (mounted /\ l \in DOMAIN loads) ~> (l \notin DOMAIN loads /\ ~loading)

\* a refresh load has failed after the initial load succeeded, and loading
\* is false
C36_Witness ==
    /\ last.op = "loadFailed"
    /\ last.id = MaxLoads
    /\ data # NoData
    /\ DOMAIN loads = {}
    /\ ~loading

\* C37: data is non-null exactly when some full load has succeeded: it is
\* null at first, only a successful load turns a null data into a snapshot,
\* a successful load always leaves a snapshot, and once a snapshot exists no
\* operation sets data back to null.
C37_DataIffLoaded ==
    [][mounted =>
        /\ (last.op = "init") => (data = NoData)
        /\ (data = NoData /\ data' # NoData) => (last'.op = "loadSucceeded")
        /\ (last'.op = "loadSucceeded") => (data' # NoData)
        /\ (data # NoData) => (data' # NoData)]_vars

\* a live event is handled by the session in the error state a failed
\* refresh left, the snapshot of the earlier load still in place
C37_Witness ==
    /\ last.op = "emit"
    /\ last.topic = "market_data"
    /\ Len(last.delivered) >= 1
    /\ \E h \in SessionHandlers : h.kind = "market"
    /\ error # NoError
    /\ DOMAIN loads = {}
    /\ data # NoData

\* C38: a refreshData that fails after an earlier successful load leaves
\* data equal to the previous snapshot while setting error to a non-null
\* message, isRealTimeConnected to false and loading to false; the refresh
\* loops of the previous snapshot keep running.
C38_FailedRefreshKeepsSnapshot ==
    [][(/\ mounted
        /\ last'.op = "loadFailed"
        /\ last'.id > 1
        /\ data # NoData)
       => /\ data' = data
          /\ error' \in {ErrorMessage(kind) : kind \in ErrKinds}
          /\ error' # NoError
          /\ ~isRealTimeConnected'
          /\ ~loading'
          /\ rtActive /\ rtActive'
          /\ intervalsAt' = intervalsAt
          /\ ~effectStale']_vars

\* a refresh started after the initial load had succeeded has failed: the
\* snapshot is that of the initial load and the loops are running
C38_Witness ==
    /\ last.op = "loadFailed"
    /\ last.id = 2
    /\ \E feed \in MarketFeeds : data = Dashboard(1, feed)
    /\ error # NoError
    /\ ~isRealTimeConnected
    /\ ~loading
    /\ rtActive

====
